---- MODULE Spec2Model ----
(***************************************************************************)
(* RF Code Association & Notification Engine of iot-433mhz (index.js).     *)
(*                                                                         *)
(* The model follows the listeners registered in the `server` step of the  *)
(* starting flow: the code-event listener (rf433mhz.on), and the CARDS     *)
(* 'inserted' / 'removed' listeners.  Every promise returned by            *)
(* dbFunctions is a suspension point: the call and its continuation are    *)
(* separate actions, so pipelines of different events interleave.          *)
(*                                                                         *)
(* Two specifications share the variables.  Spec is the engine once the    *)
(* starting flow has registered the listeners (transport open, process     *)
(* running).  SpecStart is the process from its launch: the async.series   *)
(* starting flow, the rf433mhz transport class of platform.js (open, data, *)
(* send, close) and the SIGINT handler; an event it hands to the listener  *)
(* is followed further by Spec.                                            *)
(***************************************************************************)
EXTENDS Integers, Sequences, FiniteSets, Bags, TLC

\* ------------------------------------------------------------------ bounds

\* Number of code events the transport delivers in one run.
MaxEvents == 2
\* Number of operator actions on the stores (card insert/remove, arm, ignore).
MaxOps == 1
\* Number of calls of rf433mhz.send by the api and socket handlers.
MaxSends == 2

\* ------------------------------------------------------------ value domains

\* JavaScript `undefined` / null for a code field and for a shortname.
NoCode == 0
NoName == "null"
NoImg == "null"

Codes == {111, 222, 555}
Statuses == {"received", "sent"}

\* a card document: shortname, type, device {on_code, off_code, trigger_code, armed}, img
Device(on, off, trig, armed) ==
    [on_code |-> on, off_code |-> off, trigger_code |-> trig, armed |-> armed]

SwitchCard == [shortname |-> "S", type |-> "switch",
               device |-> Device(111, 222, NoCode, FALSE), img |-> "s.png"]
AlarmCard(armed) == [shortname |-> "A", type |-> "alarm",
                     device |-> Device(NoCode, NoCode, 555, armed), img |-> NoImg]
InfoCard == [shortname |-> "I", type |-> "info",
             device |-> Device(NoCode, NoCode, NoCode, FALSE), img |-> NoImg]

\* `undefined`: what alarmTriggered resolves with when no alarm card matches
NoCard == [shortname |-> NoName, type |-> "none",
           device |-> Device(NoCode, NoCode, NoCode, FALSE), img |-> NoImg]

\* contents of the card store at startup (demo cards, or what an earlier run left)
InitialCards == {<<SwitchCard, AlarmCard(TRUE)>>, <<InfoCard>>}

CardUniverse == {SwitchCard, InfoCard} \cup {AlarmCard(a) : a \in BOOLEAN}

VARIABLES
    rfcodes,    \* db.RFCODES: set of RFCode documents
    cards,      \* db.CARDS: sequence of card documents, in insertion order
    now,        \* logical clock read by the store on every upsert
    nextEv,     \* number of code events delivered to the listener so far
    evt,        \* evt[e]: codeData of event e ({code, status})
    pc,         \* pc[e]: position of event e's pipeline
    res,        \* res[e]: result of isCodeAvailable, held by the closure of event e
    live,       \* io.emit log: bag of live broadcasts
    hooks,      \* webhook dispatch log: bag of dispatches
    removals,   \* one record per run of the 'removed' listener, with its pending callbacks
    signals,    \* number of cards-changed refresh signals (asyncEmitInitCards calls)
    ops,        \* number of operator actions so far
    rf433mhz,   \* "undefined" until the class is constructed, then the `type` of the instance
    step,       \* position of the async.series starting flow
    completed,  \* tasks of the starting flow that have called back, in order
    serial,     \* the SerialPort of an arduino transport: "closed", "opening", "open"
    rfSniffer,  \* rpi transport: TRUE once rpi433.sniffer has been set up
    onOpenCalls,\* number of invocations of the onOpen callback of openSerialPort
    listening,  \* TRUE once the server step has registered the listeners
    proc,       \* the process: "running", "exited" (process.exit), "crashed" (uncaught throw)
    sigint,     \* TRUE once the SIGINT handler has run
    closing,    \* TRUE while the callback of serial.close is pending
    parseErrors,\* the 'Error parsing this JSON' lines logged: for each, the events delivered before it
    sends,      \* one record per call of rf433mhz.send
    failure     \* the step of the starting flow that failed, "none" if none did

engine == <<rfcodes, cards, now, nextEv, evt, pc, res, live, hooks,
            removals, signals, ops>>
transport == <<rf433mhz, step, completed, serial, rfSniffer, onOpenCalls, listening,
               proc, sigint, closing, parseErrors, sends, failure>>
vars == <<engine, transport>>

Events == 1..MaxEvents

NoResult == [isAvailable |-> FALSE, assignedTo |-> NoName]
NoEvent == [code |-> NoCode, status |-> "none"]
\* `undefined` for codes_to_remove
NoQuery == <<>>

\* ------------------------------------------------------------ store layer

RFCode(code, first, lastSeen, ignored) ==
    [code |-> code, firstSeenAt |-> first, lastSeenAt |-> lastSeen, ignored |-> ignored]

\* CodeStore.upsert: insert if absent with fresh timestamps, else refresh lastSeenAt
putCodeInDB(store, codeData, t) ==
    LET docs == {r \in store : r.code = codeData.code}
    IN  IF docs = {}
        THEN store \cup {RFCode(codeData.code, t, t, FALSE)}
        ELSE (store \ docs) \cup {[r EXCEPT !.lastSeenAt = t] : r \in docs}

\* variant of cardMatches: a switch is matched on on_code only
cardMatches_OnOnly(card, code) ==
    CASE card.type = "switch" -> card.device.on_code = code
      [] card.type = "alarm"  -> card.device.trigger_code = code
      [] OTHER                -> FALSE

\* does the card's device reference the code, dispatching on the card type
cardMatches(card, code) ==
    CASE card.type = "switch" -> card.device.on_code = code \/ card.device.off_code = code
      [] card.type = "alarm"  -> card.device.trigger_code = code
      [] OTHER                -> FALSE

\* scan of CardStore in order, first match wins
RECURSIVE findCard(_, _, _)
findCard(cardSeq, code, i) ==
    IF i > Len(cardSeq) THEN NoName
    ELSE IF cardMatches(cardSeq[i], code) THEN cardSeq[i].shortname
    ELSE findCard(cardSeq, code, i + 1)

\* AvailabilityResolver
isCodeAvailable(code, store, cardSeq) ==
    LET docs == {r \in store : r.code = code}
    IN  IF docs = {} THEN [isAvailable |-> FALSE, assignedTo |-> NoName]
        ELSE LET doc == CHOOSE r \in docs : TRUE
                 owner == findCard(cardSeq, code, 1)
             IN  IF doc.ignored THEN [isAvailable |-> FALSE, assignedTo |-> NoName]
                 ELSE [isAvailable |-> owner = NoName, assignedTo |-> owner]

\* variant of alarmTriggered: the card is looked up by shortname alone
alarmTriggered_AnyType(card_shortname, type, cardSeq) ==
    LET hit == {i \in DOMAIN cardSeq : cardSeq[i].shortname = card_shortname}
    IN  IF hit = {} THEN NoCard ELSE cardSeq[CHOOSE i \in hit : TRUE]

\* AlarmTriggerWorkflow: the card of that shortname if it exists and has the type
alarmTriggered(card_shortname, type, cardSeq) ==
    LET hit == {i \in DOMAIN cardSeq :
                    cardSeq[i].shortname = card_shortname /\ cardSeq[i].type = type}
    IN  IF hit = {} THEN NoCard ELSE cardSeq[CHOOSE i \in hit : TRUE]

\* variant of codes_to_remove: the switch query names on_code only
codes_to_remove_OnOnly(card) ==
    IF card.type = "switch" THEN <<card.device.on_code>>
    ELSE IF card.type = "alarm" THEN <<card.device.trigger_code>>
    ELSE NoQuery

\* the query built by the 'removed' listener: a list of alternatives on `code`
codes_to_remove(card) ==
    IF card.type = "switch" THEN <<card.device.on_code, card.device.off_code>>
    ELSE IF card.type = "alarm" THEN <<card.device.trigger_code>>
    ELSE NoQuery

\* documents of the store a query selects ({code: v} or {$or: [{code: v}, ...]})
matching(store, query) ==
    {r \in store : \E k \in DOMAIN query : r.code = query[k]}

\* ------------------------------------------------------------ outputs

\* io.emit(name, payload)
emit(name, e, data, card) == [name |-> name, ev |-> e, data |-> data, card |-> card]

\* notification.webHookCodeDetected(codeData) / notification.alarmAdviseAll(card)
webHookCodeDetected(e, codeData) ==
    [hook |-> "code-detected", ev |-> e, data |-> codeData, card |-> NoCard]
alarmAdviseAll(e, card) ==
    [hook |-> "alarm-advise", ev |-> e, data |-> NoEvent, card |-> card]

RemoveAt(s, i) == SubSeq(s, 1, i - 1) \o SubSeq(s, i + 1, Len(s))

\* ------------------------------------------------------------ initial state

\* the tasks of async.series, in the order of the object's keys
Tasks == <<"ascii_logo", "platform", "init_db", "init_rf", "server">>

\* the process right after launch: nothing constructed, nothing opened
Launched ==
    /\ rf433mhz = "undefined"
    /\ step = "ascii_logo"
    /\ completed = <<>>
    /\ serial = "closed"
    /\ rfSniffer = FALSE
    /\ onOpenCalls = 0
    /\ listening = FALSE
    /\ proc = "running"
    /\ sigint = FALSE
    /\ closing = FALSE
    /\ parseErrors = <<>>
    /\ sends = <<>>
    /\ failure = "none"

\* the process once the starting flow has gone through on a serial transport
Started ==
    /\ rf433mhz = "arduino"
    /\ step = "listening"
    /\ completed = Tasks
    /\ serial = "open"
    /\ rfSniffer = FALSE
    /\ onOpenCalls = 1
    /\ listening = TRUE
    /\ proc = "running"
    /\ sigint = FALSE
    /\ closing = FALSE
    /\ parseErrors = <<>>
    /\ sends = <<>>
    /\ failure = "none"

\* the datastores when the process starts
InitDB ==
    /\ rfcodes = {}
    /\ cards \in InitialCards
    /\ now = 0
    /\ nextEv = 0
    /\ evt = [e \in Events |-> NoEvent]
    /\ pc = [e \in Events |-> "none"]
    /\ res = [e \in Events |-> NoResult]
    /\ live = EmptyBag
    /\ hooks = EmptyBag
    /\ removals = <<>>
    /\ signals = 0
    /\ ops = 0

Init == InitDB /\ Started

\* ------------------------------------------------------------ code events

\* variant of CodeEvent: no test of codeData.status
CodeEvent_NoGate(code, status) ==
    /\ nextEv < MaxEvents
    /\ nextEv' = nextEv + 1
    /\ evt' = [evt EXCEPT ![nextEv + 1] = [code |-> code, status |-> status]]
    /\ pc' = [pc EXCEPT ![nextEv + 1] = "putCode"]
    /\ UNCHANGED <<rfcodes, cards, now, res, live, hooks, removals, signals, ops>>
    /\ UNCHANGED transport

\* rf433mhz.on listener, synchronous part: status gate and putCodeInDB call
CodeEvent(code, status) ==
    /\ nextEv < MaxEvents
    /\ nextEv' = nextEv + 1
    /\ evt' = [evt EXCEPT ![nextEv + 1] = [code |-> code, status |-> status]]
    /\ pc' = [pc EXCEPT ![nextEv + 1] =
                IF status = "received" THEN "putCode" ELSE "ignored"]
    /\ UNCHANGED <<rfcodes, cards, now, res, live, hooks, removals, signals, ops>>
    /\ UNCHANGED transport

\* variant of PutCodeDone: the raw code is inserted as a new document on every event
PutCodeDone_Insert(e) ==
    /\ pc[e] = "putCode"
    /\ now' = now + 1
    /\ rfcodes' = rfcodes \cup {RFCode(evt[e].code, now + 1, now + 1, FALSE)}
    /\ pc' = [pc EXCEPT ![e] = "isAvail"]
    /\ UNCHANGED <<cards, nextEv, evt, res, live, hooks, removals, signals, ops>>
    /\ UNCHANGED transport

\* variant of PutCodeDone: isCodeAvailable is called without waiting for the upsert
PutCodeDone_NoWait(e) ==
    /\ pc[e] = "putCode"
    /\ pc' = [pc EXCEPT ![e] = "isAvail"]
    /\ UNCHANGED <<rfcodes, cards, now, nextEv, evt, res, live, hooks, removals, signals, ops>>
    /\ UNCHANGED transport

\* putCodeInDB fulfilled: its continuation calls isCodeAvailable
PutCodeDone(e) ==
    /\ pc[e] = "putCode"
    /\ now' = now + 1
    /\ rfcodes' = putCodeInDB(rfcodes, evt[e], now + 1)
    /\ pc' = [pc EXCEPT ![e] = "isAvail"]
    /\ UNCHANGED <<cards, nextEv, evt, res, live, hooks, removals, signals, ops>>
    /\ UNCHANGED transport

\* variant of PutCodeFail: the code-detected webhook is dispatched from the rejection path too
PutCodeFail_StillDispatch(e) ==
    /\ pc[e] = "putCode"
    /\ pc' = [pc EXCEPT ![e] = "putFailed"]
    /\ hooks' = hooks (+) SetToBag({webHookCodeDetected(e, evt[e])})
    /\ UNCHANGED <<rfcodes, cards, now, nextEv, evt, res, live, removals, signals, ops>>
    /\ UNCHANGED transport

\* putCodeInDB rejected: console.error(err)
PutCodeFail(e) ==
    /\ pc[e] = "putCode"
    /\ pc' = [pc EXCEPT ![e] = "putFailed"]
    /\ UNCHANGED <<rfcodes, cards, now, nextEv, evt, res, live, hooks,
                   removals, signals, ops>>
    /\ UNCHANGED transport

\* variant of IsCodeAvailableDone: the code-detected call sits inside the available branch
IsCodeAvailableDone_HookInBranch(e) ==
    /\ pc[e] = "isAvail"
    /\ LET result == isCodeAvailable(evt[e].code, rfcodes, cards)
       IN  /\ res' = [res EXCEPT ![e] = result]
           /\ IF result.isAvailable
              THEN /\ live' = live (+) SetToBag({emit("newRFCode", e, evt[e], NoCard)})
                   /\ hooks' = hooks (+) SetToBag({webHookCodeDetected(e, evt[e])})
                   /\ pc' = [pc EXCEPT ![e] = "done"]
              ELSE /\ live' = live
                   /\ hooks' = hooks
                   /\ pc' = [pc EXCEPT ![e] = "alarm"]
    /\ UNCHANGED <<rfcodes, cards, now, nextEv, evt, removals, signals, ops>>
    /\ UNCHANGED transport

\* variant of IsCodeAvailableDone: alarmTriggered is called in the available branch too
IsCodeAvailableDone_AlwaysLookup(e) ==
    /\ pc[e] = "isAvail"
    /\ LET result == isCodeAvailable(evt[e].code, rfcodes, cards)
       IN  /\ res' = [res EXCEPT ![e] = result]
           /\ live' = IF result.isAvailable
                      THEN live (+) SetToBag({emit("newRFCode", e, evt[e], NoCard)})
                      ELSE live
    /\ pc' = [pc EXCEPT ![e] = "alarm"]
    /\ hooks' = hooks (+) SetToBag({webHookCodeDetected(e, evt[e])})
    /\ UNCHANGED <<rfcodes, cards, now, nextEv, evt, removals, signals, ops>>
    /\ UNCHANGED transport

\* isCodeAvailable fulfilled: the two live branches, then the code-detected webhook
IsCodeAvailableDone(e) ==
    /\ pc[e] = "isAvail"
    /\ LET result == isCodeAvailable(evt[e].code, rfcodes, cards)
       IN  /\ res' = [res EXCEPT ![e] = result]
           /\ IF result.isAvailable
              THEN /\ live' = live (+) SetToBag({emit("newRFCode", e, evt[e], NoCard)})
                   /\ pc' = [pc EXCEPT ![e] = "done"]
              ELSE /\ live' = live
                   /\ pc' = [pc EXCEPT ![e] = "alarm"]
    /\ hooks' = hooks (+) SetToBag({webHookCodeDetected(e, evt[e])})
    /\ UNCHANGED <<rfcodes, cards, now, nextEv, evt, removals, signals, ops>>
    /\ UNCHANGED transport

\* isCodeAvailable rejected: console.error(err)
IsCodeAvailableFail(e) ==
    /\ pc[e] = "isAvail"
    /\ pc' = [pc EXCEPT ![e] = "availFailed"]
    /\ UNCHANGED <<rfcodes, cards, now, nextEv, evt, res, live, hooks,
                   removals, signals, ops>>
    /\ UNCHANGED transport

\* variant of AlarmTriggeredDone: the alarm card is looked up by the received code
\* instead of by result.assignedTo
AlarmTriggeredDone_ByCode(e) ==
    /\ pc[e] = "alarm"
    /\ LET hit == {i \in DOMAIN cards : cards[i].type = "alarm"
                                        /\ cards[i].device.trigger_code = evt[e].code}
           card == IF hit = {} THEN NoCard ELSE cards[CHOOSE i \in hit : TRUE]
       IN  /\ live' = IF card # NoCard
                      THEN live (+) SetToBag({emit("uiTriggerAlarm", e, NoEvent, card)})
                      ELSE live
           /\ hooks' = IF card # NoCard /\ card.device.armed
                       THEN hooks (+) SetToBag({alarmAdviseAll(e, card)})
                       ELSE hooks
    /\ pc' = [pc EXCEPT ![e] = "done"]
    /\ UNCHANGED <<rfcodes, cards, now, nextEv, evt, res, removals, signals, ops>>
    /\ UNCHANGED transport

\* variant of AlarmTriggeredDone: alarmAdviseAll is called without looking at device.armed
AlarmTriggeredDone_AdviseAlways(e) ==
    /\ pc[e] = "alarm"
    /\ LET card == alarmTriggered(res[e].assignedTo, "alarm", cards)
       IN  /\ live' = IF card # NoCard
                      THEN live (+) SetToBag({emit("uiTriggerAlarm", e, NoEvent, card)})
                      ELSE live
           /\ hooks' = IF card # NoCard
                       THEN hooks (+) SetToBag({alarmAdviseAll(e, card)})
                       ELSE hooks
    /\ pc' = [pc EXCEPT ![e] = "done"]
    /\ UNCHANGED <<rfcodes, cards, now, nextEv, evt, res, removals, signals, ops>>
    /\ UNCHANGED transport

\* variant of AlarmTriggeredDone: the card is the document seen at resolution, not
\* the one read from CardStore when the lookup runs
AlarmTriggeredDone_Cached(e) ==
    /\ pc[e] = "alarm"
    /\ LET seen == {c \in CardUniverse : c.shortname = res[e].assignedTo
                                         /\ c.type = "alarm" /\ c.device.armed}
           card == IF seen = {} THEN NoCard ELSE CHOOSE c \in seen : TRUE
       IN  /\ live' = IF card # NoCard
                      THEN live (+) SetToBag({emit("uiTriggerAlarm", e, NoEvent, card)})
                      ELSE live
           /\ hooks' = IF card # NoCard /\ card.device.armed
                       THEN hooks (+) SetToBag({alarmAdviseAll(e, card)})
                       ELSE hooks
    /\ pc' = [pc EXCEPT ![e] = "done"]
    /\ UNCHANGED <<rfcodes, cards, now, nextEv, evt, res, removals, signals, ops>>
    /\ UNCHANGED transport

\* alarmTriggered fulfilled: uiTriggerAlarm, and alarm-advise if armed
AlarmTriggeredDone(e) ==
    /\ pc[e] = "alarm"
    /\ LET card == alarmTriggered(res[e].assignedTo, "alarm", cards)
       IN  /\ live' = IF card # NoCard
                      THEN live (+) SetToBag({emit("uiTriggerAlarm", e, NoEvent, card)})
                      ELSE live
           /\ hooks' = IF card # NoCard /\ card.device.armed
                       THEN hooks (+) SetToBag({alarmAdviseAll(e, card)})
                       ELSE hooks
    /\ pc' = [pc EXCEPT ![e] = "done"]
    /\ UNCHANGED <<rfcodes, cards, now, nextEv, evt, res, removals, signals, ops>>
    /\ UNCHANGED transport

\* alarmTriggered rejected: console.error(err)
AlarmTriggeredFail(e) ==
    /\ pc[e] = "alarm"
    /\ pc' = [pc EXCEPT ![e] = "alarmFailed"]
    /\ UNCHANGED <<rfcodes, cards, now, nextEv, evt, res, live, hooks,
                   removals, signals, ops>>
    /\ UNCHANGED transport

\* ------------------------------------------------------------ card lifecycle

\* db.CARDS.on('inserted')
CardInserted(card) ==
    /\ ops < MaxOps
    /\ \A i \in DOMAIN cards : cards[i].shortname # card.shortname
    /\ cards' = Append(cards, card)
    /\ signals' = signals + 1
    /\ ops' = ops + 1
    /\ UNCHANGED <<rfcodes, now, nextEv, evt, pc, res, live, hooks, removals>>
    /\ UNCHANGED transport

\* variant of CardRemoved: the refresh is emitted only when there are codes to remove
CardRemoved_RefreshInCascade(i) ==
    /\ ops < MaxOps
    /\ i \in DOMAIN cards
    /\ LET card == cards[i]
           query == codes_to_remove(card)
       IN  /\ removals' = Append(removals,
                [card |-> card, query |-> query,
                 codes |-> IF query # NoQuery THEN "pending" ELSE "none",
                 numRemoved |-> 0,
                 unlink |-> IF card.img # NoImg THEN "pending" ELSE "none"])
           /\ signals' = IF query # NoQuery THEN signals + 1 ELSE signals
    /\ cards' = RemoveAt(cards, i)
    /\ ops' = ops + 1
    /\ UNCHANGED <<rfcodes, now, nextEv, evt, pc, res, live, hooks>>
    /\ UNCHANGED transport

\* db.CARDS.on('removed'): the card has left the store; cascade, unlink, refresh
CardRemoved(i) ==
    /\ ops < MaxOps
    /\ i \in DOMAIN cards
    /\ LET card == cards[i]
           query == codes_to_remove(card)
       IN  removals' = Append(removals,
                [card |-> card, query |-> query,
                 codes |-> IF query # NoQuery THEN "pending" ELSE "none",
                 numRemoved |-> 0,
                 unlink |-> IF card.img # NoImg THEN "pending" ELSE "none"])
    /\ cards' = RemoveAt(cards, i)
    /\ signals' = signals + 1
    /\ ops' = ops + 1
    /\ UNCHANGED <<rfcodes, now, nextEv, evt, pc, res, live, hooks>>
    /\ UNCHANGED transport

\* db.RFCODES.remove callback without error
RemoveCodesDone(i) ==
    /\ i \in DOMAIN removals
    /\ removals[i].codes = "pending"
    /\ LET gone == matching(rfcodes, removals[i].query)
       IN  /\ rfcodes' = rfcodes \ gone
           /\ removals' = [removals EXCEPT ![i].codes = "done",
                                           ![i].numRemoved = Cardinality(gone)]
    /\ UNCHANGED <<cards, now, nextEv, evt, pc, res, live, hooks, signals, ops>>
    /\ UNCHANGED transport

\* db.RFCODES.remove callback with err
RemoveCodesErr(i) ==
    /\ i \in DOMAIN removals
    /\ removals[i].codes = "pending"
    /\ removals' = [removals EXCEPT ![i].codes = "error"]
    /\ UNCHANGED <<rfcodes, cards, now, nextEv, evt, pc, res, live, hooks,
                   signals, ops>>
    /\ UNCHANGED transport

\* fs.unlink callback without error
UnlinkDone(i) ==
    /\ i \in DOMAIN removals
    /\ removals[i].unlink = "pending"
    /\ removals' = [removals EXCEPT ![i].unlink = "done"]
    /\ UNCHANGED <<rfcodes, cards, now, nextEv, evt, pc, res, live, hooks, signals, ops>>
    /\ UNCHANGED transport

\* fs.unlink callback with err: console.error('DeleteFile: file not found')
UnlinkFail(i) ==
    /\ i \in DOMAIN removals
    /\ removals[i].unlink = "pending"
    /\ removals' = [removals EXCEPT ![i].unlink = "failed"]
    /\ UNCHANGED <<rfcodes, cards, now, nextEv, evt, pc, res, live, hooks,
                   signals, ops>>
    /\ UNCHANGED transport

\* ------------------------------------------------------------ operator actions

\* the operator arms or disarms an alarm card
SetArmed(i, armed) ==
    /\ ops < MaxOps
    /\ i \in DOMAIN cards
    /\ cards[i].type = "alarm"
    /\ cards[i].device.armed # armed
    /\ cards' = [cards EXCEPT ![i].device.armed = armed]
    /\ ops' = ops + 1
    /\ UNCHANGED <<rfcodes, now, nextEv, evt, pc, res, live, hooks, removals, signals>>
    /\ UNCHANGED transport

\* CodeStore.setIgnored(code, bool)
SetIgnored(code, ignored) ==
    /\ ops < MaxOps
    /\ \E r \in rfcodes : r.code = code /\ r.ignored # ignored
    /\ rfcodes' = {IF r.code = code THEN [r EXCEPT !.ignored = ignored] ELSE r : r \in rfcodes}
    /\ ops' = ops + 1
    /\ UNCHANGED <<cards, now, nextEv, evt, pc, res, live, hooks, removals, signals>>
    /\ UNCHANGED transport

Next ==
    \/ \E code \in Codes, status \in Statuses : CodeEvent(code, status)
    \/ \E e \in Events : PutCodeDone(e)
    \/ \E e \in Events : PutCodeFail(e)
    \/ \E e \in Events : IsCodeAvailableDone(e)
    \/ \E e \in Events : IsCodeAvailableFail(e)
    \/ \E e \in Events : AlarmTriggeredDone(e)
    \/ \E e \in Events : AlarmTriggeredFail(e)
    \/ \E card \in CardUniverse : CardInserted(card)
    \/ \E i \in 1..Len(cards) : CardRemoved(i)
    \/ \E i \in 1..Len(removals) : RemoveCodesDone(i)
    \/ \E i \in 1..Len(removals) : RemoveCodesErr(i)
    \/ \E i \in 1..Len(removals) : UnlinkDone(i)
    \/ \E i \in 1..Len(removals) : UnlinkFail(i)
    \/ \E i \in 1..Len(cards), armed \in BOOLEAN : SetArmed(i, armed)
    \/ \E code \in Codes, ignored \in BOOLEAN : SetIgnored(code, ignored)

Spec == Init /\ [][Next]_vars
\* ------------------------------------------------------------ transport payloads

\* a line read from the serial port: the JSON text of an object {code, status}, or a
\* line that is not JSON (cut short by the Arduino auto-reset, noise)
Object(code, status) == [text |-> "object", code |-> code, status |-> status]
Truncated == [text |-> "truncated", code |-> NoCode, status |-> "none"]
Payloads == {Object(c, s) : c \in Codes, s \in Statuses} \cup {Truncated}

\* JSON.parse: the value of a well-formed text, a SyntaxError thrown otherwise
JSON_parse(data) ==
    IF data.text = "object"
    THEN [threw |-> FALSE, value |-> [code |-> data.code, status |-> data.status]]
    ELSE [threw |-> TRUE, value |-> NoEvent]

\* a call of rf433mhz.send: what was handed to the channel and the state of its callback
Sent(code, via, text, onSent) == [code |-> code, via |-> via, text |-> text, onSent |-> onSent]

\* ------------------------------------------------------------ starting flow

ascii_logo ==
    /\ proc = "running"
    /\ step = "ascii_logo"
    /\ completed' = Append(completed, "ascii_logo")
    /\ step' = "platform"
    /\ UNCHANGED <<rf433mhz, serial, rfSniffer, onOpenCalls, listening, proc, sigint,
                   closing, parseErrors, sends, failure>>
    /\ UNCHANGED engine

\* platform.js calls back with an instance of the class: its constructor fixes `type`
platform(t) ==
    /\ proc = "running"
    /\ step = "platform"
    /\ failure = "none"
    /\ rf433mhz' = t
    /\ completed' = Append(completed, "platform")
    /\ step' = "init_db"
    /\ UNCHANGED <<serial, rfSniffer, onOpenCalls, listening, proc, sigint, closing,
                   parseErrors, sends, failure>>
    /\ UNCHANGED engine

\* platform.js never calls back: no serial port listed, prompt error, platform not supported
platform_none ==
    /\ proc = "running"
    /\ step = "platform"
    /\ failure = "none"
    /\ failure' = "platform"
    /\ UNCHANGED <<rf433mhz, step, completed, serial, rfSniffer, onOpenCalls, listening,
                   proc, sigint, closing, parseErrors, sends>>
    /\ UNCHANGED engine

\* rf433mhz.openSerialPort(onOpen): the arduino type starts serial.open, the rpi type
\* sets up the sniffer and returns
openSerialPort ==
    IF rf433mhz = "arduino"
    THEN serial' = "opening" /\ rfSniffer' = rfSniffer
    ELSE rfSniffer' = TRUE /\ serial' = serial

\* variant of init_db_error: the catch handler calls back, so the flow goes on
init_db_error_Continue ==
    /\ proc = "running"
    /\ step = "init_db"
    /\ failure = "none"
    /\ failure' = "init_db"
    /\ completed' = Append(completed, "init_db")
    /\ step' = "init_rf"
    /\ openSerialPort
    /\ UNCHANGED <<rf433mhz, onOpenCalls, listening, proc, sigint, closing, parseErrors, sends>>
    /\ UNCHANGED engine

\* initDBCards / initDBSettings fulfilled: the task calls back and init_rf starts
init_db ==
    /\ proc = "running"
    /\ step = "init_db"
    /\ failure = "none"
    /\ completed' = Append(completed, "init_db")
    /\ step' = "init_rf"
    /\ openSerialPort
    /\ UNCHANGED <<rf433mhz, onOpenCalls, listening, proc, sigint, closing, parseErrors,
                   sends, failure>>
    /\ UNCHANGED engine

\* initDBCards / initDBSettings rejected: the error is logged, the task never calls back
init_db_error ==
    /\ proc = "running"
    /\ step = "init_db"
    /\ failure = "none"
    /\ failure' = "init_db"
    /\ UNCHANGED <<rf433mhz, step, completed, serial, rfSniffer, onOpenCalls, listening,
                   proc, sigint, closing, parseErrors, sends>>
    /\ UNCHANGED engine

\* callback of serial.open without error: onOpen() arms the 2000 ms timer
serial_open ==
    /\ proc = "running"
    /\ serial = "opening"
    /\ serial' = "open"
    /\ onOpenCalls' = onOpenCalls + 1
    /\ step' = "reset_wait"
    /\ UNCHANGED <<rf433mhz, completed, rfSniffer, listening, proc, sigint, closing,
                   parseErrors, sends, failure>>
    /\ UNCHANGED engine

\* callback of serial.open with an error: logged and thrown, nothing catches it
serial_open_error ==
    /\ proc = "running"
    /\ serial = "opening"
    /\ serial' = "closed"
    /\ failure' = "open"
    /\ proc' = "crashed"
    /\ UNCHANGED <<rf433mhz, step, completed, rfSniffer, onOpenCalls, listening, sigint,
                   closing, parseErrors, sends>>
    /\ UNCHANGED engine

\* the timer fires: init_rf calls back; the server task requires server.js and calls back
init_rf_timeout ==
    /\ proc = "running"
    /\ step = "reset_wait"
    /\ completed' = completed \o <<"init_rf", "server">>
    /\ step' = "server"
    /\ UNCHANGED <<rf433mhz, serial, rfSniffer, onOpenCalls, listening, proc, sigint,
                   closing, parseErrors, sends, failure>>
    /\ UNCHANGED engine

\* callback of server.js: api and socket handlers get rf433mhz, the CARDS listeners and
\* the code-event listener (rf433mhz.on) are registered
server ==
    /\ proc = "running"
    /\ step = "server"
    /\ listening' = TRUE
    /\ step' = "listening"
    /\ UNCHANGED <<rf433mhz, completed, serial, rfSniffer, onOpenCalls, proc, sigint,
                   closing, parseErrors, sends, failure>>
    /\ UNCHANGED engine

\* ------------------------------------------------------------ transport

\* variant of serial_data: JSON.parse is called outside any try, its SyntaxError is uncaught
serial_data_NoTry(data) ==
    /\ proc = "running"
    /\ listening
    /\ rf433mhz = "arduino"
    /\ serial = "open"
    /\ LET parsed == JSON_parse(data)
       IN  IF parsed.threw
           THEN /\ Len(parseErrors) < MaxEvents
                /\ proc' = "crashed"
                /\ UNCHANGED <<rf433mhz, step, completed, serial, rfSniffer, onOpenCalls,
                               listening, sigint, closing, parseErrors, sends, failure>>
                /\ UNCHANGED engine
           ELSE CodeEvent(parsed.value.code, parsed.value.status)

\* the 'data' handler set by rf433mhz.on: the listener is called with the parsed line;
\* a line that does not parse is logged
serial_data(data) ==
    /\ proc = "running"
    /\ listening
    /\ rf433mhz = "arduino"
    /\ serial = "open"
    /\ LET parsed == JSON_parse(data)
       IN  IF parsed.threw
           THEN /\ Len(parseErrors) < MaxEvents
                /\ parseErrors' = Append(parseErrors, nextEv)
                /\ UNCHANGED <<rf433mhz, step, completed, serial, rfSniffer, onOpenCalls,
                               listening, proc, sigint, closing, sends, failure>>
                /\ UNCHANGED engine
           ELSE CodeEvent(parsed.value.code, parsed.value.status)

\* the device is unplugged: the SerialPort is no longer open
serial_disconnect ==
    /\ proc = "running"
    /\ serial = "open"
    /\ serial' = "closed"
    /\ UNCHANGED <<rf433mhz, step, completed, rfSniffer, onOpenCalls, listening, proc,
                   sigint, closing, parseErrors, sends, failure>>
    /\ UNCHANGED engine

\* variant of send: serial.write is called without asking serial.isOpen()
send_NoOpenCheck(code) ==
    /\ proc = "running"
    /\ listening
    /\ Len(sends) < MaxSends
    /\ sends' = Append(sends,
          IF rf433mhz = "rpi" THEN Sent(code, "gpio", "", "pending")
          ELSE IF serial = "open" THEN Sent(code, "serial", ToString(code), "pending")
          ELSE Sent(code, "none", "", "pending"))
    /\ UNCHANGED <<rf433mhz, step, completed, serial, rfSniffer, onOpenCalls, listening,
                   proc, sigint, closing, parseErrors, failure>>
    /\ UNCHANGED engine

\* rf433mhz.send(code, callback), called by the api and socket handlers
send(code) ==
    /\ proc = "running"
    /\ listening
    /\ Len(sends) < MaxSends
    /\ sends' = Append(sends,
          IF rf433mhz = "rpi" THEN Sent(code, "gpio", "", "pending")
          ELSE IF serial = "open" THEN Sent(code, "serial", ToString(code), "pending")
          ELSE Sent(code, "none", "", "never"))
    /\ UNCHANGED <<rf433mhz, step, completed, serial, rfSniffer, onOpenCalls, listening,
                   proc, sigint, closing, parseErrors, failure>>
    /\ UNCHANGED engine

\* the callback handed to serial.write is called
write_done(i) ==
    /\ proc = "running"
    /\ i \in DOMAIN sends
    /\ sends[i].onSent = "pending"
    /\ sends' = [sends EXCEPT ![i].onSent = "called"]
    /\ UNCHANGED <<rf433mhz, step, completed, serial, rfSniffer, onOpenCalls, listening,
                   proc, sigint, closing, parseErrors, failure>>
    /\ UNCHANGED engine

\* ------------------------------------------------------------ shutdown

\* rf433mhz.close(callback): the arduino type hands the callback to serial.close, the
\* rpi type does nothing
close ==
    IF rf433mhz = "arduino" THEN closing' = TRUE ELSE closing' = closing

\* process.on('SIGINT')
SIGINT ==
    /\ proc = "running"
    /\ sigint' = TRUE
    /\ IF rf433mhz # "undefined"
       THEN close /\ proc' = proc
       ELSE closing' = closing /\ proc' = "exited"
    /\ UNCHANGED <<rf433mhz, step, completed, serial, rfSniffer, onOpenCalls, listening,
                   parseErrors, sends, failure>>
    /\ UNCHANGED engine

\* callback of serial.close, with or without error: process.exit()
serial_close ==
    /\ proc = "running"
    /\ closing
    /\ serial' = "closed"
    /\ closing' = FALSE
    /\ proc' = "exited"
    /\ UNCHANGED <<rf433mhz, step, completed, rfSniffer, onOpenCalls, listening, sigint,
                   parseErrors, sends, failure>>
    /\ UNCHANGED engine

InitStart == InitDB /\ Launched

NextStart ==
    \/ ascii_logo
    \/ \E t \in {"arduino", "rpi"} : platform(t)
    \/ platform_none
    \/ init_db
    \/ init_db_error
    \/ serial_open
    \/ serial_open_error
    \/ init_rf_timeout
    \/ server
    \/ \E data \in Payloads : serial_data(data)
    \/ serial_disconnect
    \/ \E code \in Codes : send(code)
    \/ \E i \in 1..Len(sends) : write_done(i)
    \/ SIGINT
    \/ serial_close

SpecStart == InitStart /\ [][NextStart]_vars

\* ------------------------------------------------------------ vocabulary of the properties

\* outputs attributed to event e
LiveFor(e, name) == {m \in BagToSet(live) : m.ev = e /\ m.name = name}
HooksFor(e, hook) == {h \in BagToSet(hooks) : h.ev = e /\ h.hook = hook}
NoOutputFor(e) ==
    /\ \A m \in BagToSet(live) : m.ev # e
    /\ \A h \in BagToSet(hooks) : h.ev # e

\* positions of a pipeline
AfterUpsert == {"isAvail", "availFailed", "alarm", "alarmFailed", "done"}
AfterResolve == {"alarm", "alarmFailed", "done"}

\* the code values a card owns, by type
OwnedCodes(card) ==
    IF card.type = "switch" THEN {card.device.on_code, card.device.off_code}
    ELSE IF card.type = "alarm" THEN {card.device.trigger_code}
    ELSE {}

CardSet(cardSeq) == {cardSeq[i] : i \in DOMAIN cardSeq}

\* C1: every received event whose upsert and resolution succeeded has exactly one
\* code-detected dispatch, carrying its raw payload, available or not; an event that
\* has not got that far has none, and no event ever has more than one.
C1_CodeDetectedExactlyOnce ==
    \A e \in Events :
        /\ HooksFor(e, "code-detected") \subseteq {webHookCodeDetected(e, evt[e])}
        /\ CopiesIn(webHookCodeDetected(e, evt[e]), hooks) =
               IF pc[e] \in AfterResolve THEN 1 ELSE 0

\* two interleaved pipelines, one resolved available and one not, both dispatched
C1_Witness ==
    \E a, b \in Events :
        /\ pc[a] = "done" /\ res[a].isAvailable
        /\ pc[b] = "alarm" /\ ~res[b].isAvailable
        /\ CopiesIn(webHookCodeDetected(a, evt[a]), hooks) = 1
        /\ CopiesIn(webHookCodeDetected(b, evt[b]), hooks) = 1

IsAlarmName(n) == \E c \in CardUniverse : c.shortname = n /\ c.type = "alarm"

\* the alarm cards of that shortname in a card store
AlarmCardsNamed(cardSeq, n) == {c \in CardSet(cardSeq) : c.shortname = n /\ c.type = "alarm"}

\* C2 as stated: whenever a received code resolved as assigned to an alarm card, the
\* finished pipeline has produced uiTriggerAlarm with that card, and alarm-advise
\* exactly when the card was armed.
C2_AlwaysTriggered ==
    \A e \in Events :
        pc[e] = "done" /\ ~res[e].isAvailable /\ IsAlarmName(res[e].assignedTo) =>
            \E m \in LiveFor(e, "uiTriggerAlarm") :
                /\ m.card.shortname = res[e].assignedTo
                /\ (HooksFor(e, "alarm-advise") # {}) <=> m.card.device.armed

\* C2 (amended): when the alarm lookup of an event completes and the alarm card the
\* code was resolved to is still in CardStore, uiTriggerAlarm with that card is
\* broadcast, armed or not, and alarm-advise is dispatched iff the card's device.armed
\* is true at the lookup; when the card is gone at the lookup, neither is produced.
C2_AlarmGating ==
    [][\A e \in Events :
          pc[e] = "alarm" /\ pc'[e] = "done" =>
              LET found == AlarmCardsNamed(cards, res[e].assignedTo)
              IN  IF found = {}
                  THEN live' = live /\ hooks' = hooks
                  ELSE \E c \in found :
                          /\ live' = live (+) SetToBag({emit("uiTriggerAlarm", e, NoEvent, c)})
                          /\ hooks' = IF c.device.armed
                                      THEN hooks (+) SetToBag({alarmAdviseAll(e, c)})
                                      ELSE hooks]_vars

\* an armed trigger (live and webhook) and a disarmed trigger (live only)
C2_Witness ==
    \E a, b \in Events :
        /\ pc[a] = "done" /\ pc[b] = "done"
        /\ \E m \in LiveFor(a, "uiTriggerAlarm") : m.card.device.armed
        /\ HooksFor(a, "alarm-advise") # {}
        /\ \E m \in LiveFor(b, "uiTriggerAlarm") : ~m.card.device.armed
        /\ HooksFor(b, "alarm-advise") = {}

\* the orders of C3 that the listener keeps: the upsert of an event has completed
\* when its resolution is pending or past, and nothing is broadcast or dispatched
\* for an event before its resolution has completed
OrderUpToResolve ==
    /\ now = Cardinality({e \in Events : pc[e] \in AfterUpsert})
    /\ \A e \in Events : pc[e] \notin AfterResolve => NoOutputFor(e)

C4_CascadingDelete ==
    [][\A i \in DOMAIN removals :
          LET owned == OwnedCodes(removals[i].card)
          IN  /\ removals[i].codes = "pending" /\ removals'[i].codes = "done" =>
                    /\ rfcodes' = {r \in rfcodes : r.code \notin owned}
                    /\ \A r \in rfcodes' : r.code \notin owned
                    /\ removals'[i].numRemoved =
                           Cardinality({r \in rfcodes : r.code \in owned})
              /\ removals[i].codes = "none" <=> owned = {}
              /\ removals[i].codes \in {"none", "error"} =>
                    removals'[i].codes = removals[i].codes]_vars

\* the cascade of the switch card removed both of its codes
C4_Witness ==
    \E i \in DOMAIN removals :
        /\ removals[i].card.type = "switch"
        /\ removals[i].codes = "done"
        /\ removals[i].numRemoved = 2
        /\ rfcodes = {}

\* C5: the cards-changed signal is emitted exactly once by every card insertion and
\* every card removal, and by nothing else: the outcome of the cascade and of the
\* asset deletion, which complete later, neither adds nor withholds a signal.
C5_RefreshOncePerChange ==
    [][IF Len(cards') # Len(cards)
       THEN signals' = signals + 1
       ELSE signals' = signals]_vars

\* a removal whose cascade and asset deletion both failed, still signalled once
C5_Witness ==
    /\ signals = 1
    /\ \E i \in DOMAIN removals :
           removals[i].codes = "error" /\ removals[i].unlink = "failed"

\* C6: an event whose status is not 'received' changes neither store and produces no
\* broadcast and no dispatch, when it arrives and ever after.
C6_IgnoredStatusNoEffect ==
    [][/\ nextEv' = nextEv + 1 /\ evt'[nextEv'].status # "received" =>
              /\ rfcodes' = rfcodes /\ cards' = cards /\ now' = now
              /\ live' = live /\ hooks' = hooks
              /\ pc'[nextEv'] = "ignored"
       /\ \A e \in Events :
              pc[e] = "ignored" => pc'[e] = "ignored" /\ NoOutputFor(e)']_vars

\* the same code: dropped when its status is not 'received', processed when it is
C6_Witness ==
    \E e, f \in Events :
        /\ pc[e] = "ignored" /\ evt[e].status = "sent"
        /\ pc[f] = "done" /\ evt[f].code = evt[e].code
        /\ NoOutputFor(e) /\ ~NoOutputFor(f)

\* the step in which the upsert of event e completes
UpsertStep(e) == pc[e] = "putCode" /\ pc'[e] = "isAvail"

\* C7: CodeStore never holds two records for one code; the upsert of an observed code
\* creates the record with both timestamps set to the observation's time when the
\* code has no record, and otherwise only moves lastSeenAt to the observation's time;
\* no other step touches the timestamps of a record.  Hence a record's firstSeenAt is
\* the time of its first observation and its lastSeenAt that of the latest one.
C7_IdempotentUpsert ==
    [][/\ \A r1, r2 \in rfcodes' : r1.code = r2.code => r1 = r2
       /\ \A e \in Events :
              UpsertStep(e) =>
                  LET old == {r \in rfcodes : r.code = evt[e].code}
                  IN  /\ now' > now
                      /\ IF old = {}
                         THEN \E r \in rfcodes' :
                                  /\ r.code = evt[e].code
                                  /\ r.firstSeenAt = now' /\ r.lastSeenAt = now'
                                  /\ rfcodes' = rfcodes \cup {r}
                         ELSE \E r \in old :
                                  rfcodes' = (rfcodes \ {r}) \cup {[r EXCEPT !.lastSeenAt = now']}
       /\ \A r \in rfcodes :
              (\A e \in Events : ~(UpsertStep(e) /\ evt[e].code = r.code)) =>
                  \A r2 \in rfcodes' :
                      r2.code = r.code =>
                          r2.firstSeenAt = r.firstSeenAt /\ r2.lastSeenAt = r.lastSeenAt]_vars

\* two ingestions of one code, interleaved: both were waiting on the store together,
\* and one record holds the first and the latest observation
C7_Witness ==
    \E a, b \in Events :
        /\ a # b /\ evt[a].code = evt[b].code
        /\ pc[a] = "isAvail" /\ pc[b] = "isAvail"
        /\ \E r \in rfcodes :
               r.code = evt[a].code /\ r.firstSeenAt = 1 /\ r.lastSeenAt = 2
        /\ Cardinality(rfcodes) = 1

\* shortnames of the cards that reference a code
Owners(cardSeq, code) ==
    {c.shortname : c \in {c \in CardSet(cardSeq) : code \in OwnedCodes(c)}}

\* C8: the result of availability resolution is isAvailable=true exactly when the
\* code has a record with ignored=false and no card references it; when a card
\* references a non-ignored code the result is isAvailable=false with assignedTo the
\* shortname of a card that references it.
C8_AvailabilityResolution ==
    [][\A e \in Events :
          pc[e] = "isAvail" /\ pc'[e] \in AfterResolve =>
              LET code == evt[e].code
                  free == \E d \in rfcodes : d.code = code /\ ~d.ignored
                  owners == Owners(cards, code)
              IN  /\ res'[e].isAvailable <=> (free /\ owners = {})
                  /\ free /\ owners # {} =>
                        ~res'[e].isAvailable /\ res'[e].assignedTo \in owners]_vars

\* off_code 222 resolved as assigned to S, and a code resolved as available
C8_Witness ==
    \E e, f \in Events :
        /\ evt[e].code = 222 /\ pc[e] \in AfterResolve
        /\ res[e] = [isAvailable |-> FALSE, assignedTo |-> "S"]
        /\ pc[f] \in AfterResolve /\ res[f].isAvailable

FailedEarly == {"putFailed", "availFailed"}

\* C10: a store failure during upsert or resolution ends that event's pipeline only:
\* the failing step changes nothing but the event's position, the event never has a
\* broadcast or a dispatch, and the listener and every other pipeline can go on.
C10_FailureAbortsOnlyThisEvent ==
    [][\A e \in Events :
          /\ pc'[e] \in FailedEarly => NoOutputFor(e)'
          /\ pc[e] \in FailedEarly => pc'[e] = pc[e]
          /\ (pc[e] \notin FailedEarly /\ pc'[e] \in FailedEarly) =>
                /\ UNCHANGED <<rfcodes, cards, now, nextEv, evt, res, live, hooks,
                               removals, signals>>
                /\ \A f \in Events \ {e} : pc'[f] = pc[f]
                /\ (nextEv < MaxEvents => (ENABLED CodeEvent(555, "received"))')
                /\ \A f \in Events :
                      /\ pc'[f] = "putCode" => (ENABLED PutCodeDone(f))'
                      /\ pc'[f] = "isAvail" => (ENABLED IsCodeAvailableDone(f))'
                      /\ pc'[f] = "alarm" => (ENABLED AlarmTriggeredDone(f))']_vars

\* an event failed in the store, and a later event went through the full pipeline
C10_Witness ==
    \E e, f \in Events :
        /\ e < f
        /\ pc[e] \in FailedEarly /\ NoOutputFor(e)
        /\ pc[f] = "done"
        /\ HooksFor(f, "code-detected") # {}
        /\ LiveFor(f, "uiTriggerAlarm") # {}

\* the lines of the serial port that are JSON texts
WellFormed == {data \in Payloads : ~JSON_parse(data).threw}

\* C11: a line that is not JSON is logged and dropped: the step changes no store, no
\* pipeline and no output, the listener is not invoked, the process and the port stay
\* as they were, and every well-formed line can still be delivered afterwards; the
\* listener only ever receives the parsed value of a well-formed line, and no line
\* ends the process.
C11_MalformedDropped ==
    [][/\ Len(parseErrors') > Len(parseErrors) =>
              /\ UNCHANGED engine
              /\ proc' = "running" /\ serial' = "open" /\ listening'
              /\ nextEv < MaxEvents =>
                    \A data \in WellFormed : (ENABLED serial_data(data))'
       /\ nextEv' = nextEv + 1 =>
              \E data \in WellFormed : evt'[nextEv'] = JSON_parse(data).value
       /\ proc' = "crashed" => failure' = "open"]_vars

\* a line was dropped with no event delivered yet, and a line after it was delivered
C11_Witness ==
    /\ \E i \in DOMAIN parseErrors : parseErrors[i] = 0
    /\ nextEv = 1 /\ pc[1] = "putCode"
    /\ proc = "running"

IsSwitchName(n) == \E c \in CardUniverse : c.shortname = n /\ c.type = "switch"

\* C12: an event whose code was resolved as assigned to a switch card never has a
\* uiTriggerAlarm broadcast nor an alarm-advise dispatch; every uiTriggerAlarm and
\* every alarm-advise of an event carries a card of type alarm, and that card is the
\* one the event's code was resolved as assigned to.
C12_AlarmCardsOnly ==
    \A e \in Events :
        /\ pc[e] \in AfterResolve /\ IsSwitchName(res[e].assignedTo) =>
              LiveFor(e, "uiTriggerAlarm") = {} /\ HooksFor(e, "alarm-advise") = {}
        /\ \A m \in LiveFor(e, "uiTriggerAlarm") \cup HooksFor(e, "alarm-advise") :
              /\ m.card.type = "alarm"
              /\ ~res[e].isAvailable
              /\ m.card.shortname = res[e].assignedTo
              /\ m.card.device.trigger_code = evt[e].code

\* a switch code went through the alarm lookup with no alarm output, while the
\* trigger code of the alarm card produced both
C12_Witness ==
    \E e, f \in Events :
        /\ pc[e] = "done" /\ res[e].assignedTo = "S"
        /\ LiveFor(e, "uiTriggerAlarm") = {} /\ HooksFor(e, "alarm-advise") = {}
        /\ pc[f] = "done" /\ res[f].assignedTo = "A"
        /\ LiveFor(f, "uiTriggerAlarm") # {} /\ HooksFor(f, "alarm-advise") # {}

\* the channel of the transport is established: the serial port is open, or the
\* sniffer of the GPIO receiver is set up
ChannelEstablished == serial = "open" \/ rfSniffer

\* C13 as stated: for either transport type, once openSerialPort has established the
\* channel its onOpen callback has been invoked, exactly once (so the init_rf task,
\* which waits on onOpen, can call back and the server step can run).
C13_OnOpenOncePerTransport ==
    /\ onOpenCalls <= 1
    /\ ChannelEstablished => onOpenCalls = 1

\* C14 as stated: once the SIGINT handler has run, the process has exited or the close
\* of the transport, whose completion exits it, is in progress; with a transport the
\* exit comes only after the close has completed, and with no transport constructed
\* yet the handler exits at once.
C14_ShutdownExits ==
    sigint =>
        /\ proc = "exited" \/ closing
        /\ proc = "exited" /\ rf433mhz # "undefined" => serial = "closed" /\ ~closing
        /\ rf433mhz = "undefined" => proc = "exited"

\* C15: an event has a newRFCode broadcast, once and with its raw payload, exactly
\* when its code was resolved as available; such an event goes from resolution
\* straight to the end of its pipeline, so the alarm lookup is never in flight for it
\* and it has no uiTriggerAlarm and no alarm-advise.
C15_BranchesExclusive ==
    \A e \in Events :
        /\ LiveFor(e, "newRFCode") \subseteq {emit("newRFCode", e, evt[e], NoCard)}
        /\ CopiesIn(emit("newRFCode", e, evt[e], NoCard), live) =
               IF res[e].isAvailable THEN 1 ELSE 0
        /\ res[e].isAvailable =>
               /\ pc[e] = "done"
               /\ LiveFor(e, "uiTriggerAlarm") = {}
               /\ HooksFor(e, "alarm-advise") = {}
        /\ pc[e] \in {"alarm", "alarmFailed"} => ~res[e].isAvailable

\* one event took the available branch, the other the alarm branch
C15_Witness ==
    \E e, f \in Events :
        /\ pc[e] = "done" /\ res[e].isAvailable
        /\ LiveFor(e, "newRFCode") # {}
        /\ pc[f] = "done" /\ ~res[f].isAvailable
        /\ LiveFor(f, "newRFCode") = {}
        /\ LiveFor(f, "uiTriggerAlarm") # {}

\* everything broadcast and dispatched for event e
OutputsFor(e) ==
    {m \in BagToSet(live) : m.ev = e} \cup {h \in BagToSet(hooks) : h.ev = e}

\* C16: between the resolution of an event and its alarm lookup any card can be
\* removed.  When the lookup then finds no alarm card of the resolved shortname, the
\* step produces nothing: the event ends with no newRFCode, no uiTriggerAlarm and no
\* alarm-advise, and with its one code-detected dispatch, for good.  A uiTriggerAlarm
\* always carries a card that is in CardStore at the step of the lookup.
C16_ResolutionLookupRace ==
    [][\A e \in Events :
          /\ pc[e] = "alarm" /\ ops < MaxOps =>
                \A i \in DOMAIN cards : ENABLED CardRemoved(i)
          /\ (/\ pc[e] = "alarm" /\ pc'[e] = "done"
              /\ AlarmCardsNamed(cards, res[e].assignedTo) = {}) =>
                 /\ live' = live /\ hooks' = hooks
                 /\ OutputsFor(e)' = {webHookCodeDetected(e, evt[e])}
                 /\ CopiesIn(webHookCodeDetected(e, evt[e]), hooks') = 1
          /\ pc[e] = "done" =>
                 /\ pc'[e] = "done"
                 /\ OutputsFor(e)' = OutputsFor(e)
          /\ \A m \in LiveFor(e, "uiTriggerAlarm")' \ LiveFor(e, "uiTriggerAlarm") :
                 m.card \in CardSet(cards)]_vars

\* the alarm card was removed after its trigger code was resolved as assigned to it:
\* the pipeline ended with the code-detected dispatch alone
C16_Witness ==
    \E e \in Events :
        /\ pc[e] = "done"
        /\ res[e] = [isAvailable |-> FALSE, assignedTo |-> "A"]
        /\ AlarmCardsNamed(cards, "A") = {}
        /\ \E i \in DOMAIN removals : removals[i].card.shortname = "A"
        /\ OutputsFor(e) = {webHookCodeDetected(e, evt[e])}

\* the first n tasks of the starting flow
FirstTasks(n) == SubSeq(Tasks, 1, n)

\* C17: the tasks of the starting flow complete in the order logo, platform, store
\* initialisation, transport open, server; the listeners are registered only when the
\* first four have completed, with the transport constructed and opened, and a line of
\* the transport is handled only once they are registered.  When the platform step,
\* the store initialisation or the open of the transport fails, the flow stops at
\* that task: the listeners are never registered and no code event is processed.
C17_StartupOrder ==
    /\ completed = FirstTasks(Len(completed))
    /\ listening =>
          /\ Len(completed) >= 4
          /\ rf433mhz # "undefined"
          /\ onOpenCalls = 1
          /\ failure = "none"
    /\ nextEv > 0 \/ parseErrors # <<>> => listening
    /\ failure # "none" =>
          /\ ~listening
          /\ nextEv = 0
          /\ \A e \in Events : pc[e] = "none"
          /\ completed = FirstTasks(CASE failure = "platform" -> 1
                                      [] failure = "init_db" -> 2
                                      [] failure = "open" -> 3)

\* the whole flow went through and a code event was handed to the listener
C17_Witness ==
    /\ completed = Tasks
    /\ listening
    /\ nextEv > 0
    /\ pc[1] = "putCode"

\* C18: a send on the serial transport with the port open writes the code, as text,
\* and leaves onSent to be invoked after the write; with the port not open it writes
\* nothing, never invokes onSent and reports no error: the call changes nothing else
\* and the process goes on.  onSent is only ever invoked for a send that was written.
C18_SendOnlyWhenOpen ==
    [][/\ (Len(sends') = Len(sends) + 1 /\ rf433mhz = "arduino") =>
              LET s == sends'[Len(sends')]
              IN  /\ SubSeq(sends', 1, Len(sends)) = sends
                  /\ proc' = "running" /\ serial' = serial /\ failure' = failure
                  /\ IF serial = "open"
                     THEN s.via = "serial" /\ s.text = ToString(s.code)
                                           /\ s.onSent = "pending"
                     ELSE s.via = "none" /\ s.text = "" /\ s.onSent = "never"
       /\ \A i \in DOMAIN sends :
              /\ sends[i].onSent = "never" => sends'[i] = sends[i]
              /\ sends'[i].onSent = "called" => sends[i].via = "serial"]_vars

\* a send written and acknowledged while the port was open, and a later one dropped
\* after the port was lost
C18_Witness ==
    /\ Len(sends) = 2
    /\ sends[1] = Sent(111, "serial", "111", "called")
    /\ sends[2] = Sent(111, "none", "", "never")
    /\ serial = "closed"
    /\ proc = "running"

====
